---- MODULE Spec2Model ----
(***************************************************************************)
(* Model of heartbeat/src/main.rs: the Monitor's two history windows, the  *)
(* baseline parameters and static information set by Monitor::new, the two *)
(* anomaly rules (detect_cpu_spike, detect_memory_leak), the part of       *)
(* collect_metrics that evaluates the rules and updates the windows, the   *)
(* per-disk records and top processes built by collect_metrics, and the    *)
(* loop of main.                                                           *)
(*                                                                         *)
(* CPU samples are Rust f32 values.  A non-negative finite f32 is the      *)
(* record [m |-> significand, e |-> exponent] with value m * 2^e, where    *)
(* m = 0 (zero) or 2^23 <= m < 2^24.  Sums, products and quotients are     *)
(* rounded to nearest, ties to even, as IEEE 754 single precision does.    *)
(* Negative values, NaN, infinities and subnormals are outside the model:  *)
(* a CPU percentage is in 0..100 and no operation of the rules on such     *)
(* values leaves the normal range.                                         *)
(***************************************************************************)
EXTENDS Integers, Sequences, FiniteSets, TLC

VARIABLES
    cpu_history,      \* Monitor.cpu_history: VecDeque<f32>, front first
    memory_history,   \* Monitor.memory_history: VecDeque<u64>, front first
    pc,               \* position of main's loop: "wait" or "emit"
    metrics,          \* the SystemMetrics returned by collect_metrics
    stdout_len,       \* number of lines written to standard output
    stdout_last,      \* the last line written to standard output
    stderr_len,       \* number of lines written to standard error
    sampled,          \* history: every <<cpu, mem>> sample taken so far
    budget,           \* ticks the environment may still deliver
    events,           \* irregular events the environment may still cause
    baseline_samples,            \* Monitor.baseline_samples: usize
    spike_threshold_multiplier,  \* Monitor.spike_threshold_multiplier: f32
    memory_leak_threshold,       \* Monitor.memory_leak_threshold: f32
    os_info,          \* Monitor.os_info: [name, hostname]
    cpu_info,         \* Monitor.cpu_info: [brand, physical_core_count]
    disks,            \* Monitor.disks: sequence of [total, available]
    processes         \* sys.processes().values(): [pid, cpu_usage], as iterated

\* The baseline parameters and the static information of the Monitor.
params == <<baseline_samples, spike_threshold_multiplier, memory_leak_threshold>>
static_info == <<os_info, cpu_info>>

vars == <<cpu_history, memory_history, pc, metrics, stdout_len, stdout_last,
          stderr_len, sampled, budget, events, disks, processes,
          baseline_samples, spike_threshold_multiplier, memory_leak_threshold,
          os_info, cpu_info>>

(***************************************************************************)
(* Bounds of the exploration.                                              *)
(***************************************************************************)
MaxTicks == 32
MaxLoopTicks == 12
MaxEvents == 1
MaxTail == 2
MaxMidTicks == 1
MaxDisks == 2
MaxDiskUnits == 4
MaxProcs == 11
MaxInfoTicks == 3
MaxBusy == 2

(***************************************************************************)
(* Single-precision arithmetic.                                            *)
(***************************************************************************)
Two12 == 4096
Two23 == 8388608
Two24 == 16777216

Zero32 == [m |-> 0, e |-> 0]

\* The f32 nearest to (i + rn/rd) * 2^e, ties to even (0 <= rn < rd).
RECURSIVE F32Round(_, _, _, _)
F32Round(i, rn, rd, e) ==
    IF i = 0 /\ rn = 0 THEN Zero32
    ELSE IF i >= Two24
        THEN F32Round(i \div 2, (i % 2) * rd + rn, 2 * rd, e + 1)
    ELSE IF i < Two23
        THEN F32Round(2 * i + ((2 * rn) \div rd), (2 * rn) % rd, rd, e - 1)
    ELSE LET up == (2 * rn > rd) \/ (2 * rn = rd /\ i % 2 = 1)
             j == IF up THEN i + 1 ELSE i
         IN  IF j = Two24 THEN [m |-> Two23, e |-> e + 1]
                          ELSE [m |-> j, e |-> e]

\* n as f32 (the cast `n as f32` of an unsigned integer).
F32FromInt(n) == F32Round(n, 0, 1, 0)

\* a + b in f32.
F32Add(a, b) ==
    IF a.m = 0 THEN b
    ELSE IF b.m = 0 THEN a
    ELSE LET hi == IF a.e >= b.e THEN a ELSE b
             lo == IF a.e >= b.e THEN b ELSE a
             d == hi.e - lo.e
         IN  IF d > 24 THEN hi
             ELSE F32Round(hi.m + (lo.m \div (2 ^ d)), lo.m % (2 ^ d),
                           2 ^ d, hi.e)

\* a * b in f32: the 48-bit product of the significands, by 12-bit halves.
F32Mul(a, b) ==
    IF a.m = 0 \/ b.m = 0 THEN Zero32
    ELSE LET ah == a.m \div Two12
             al == a.m % Two12
             bh == b.m \div Two12
             bl == b.m % Two12
             mid == ah * bl + al * bh
             low == (mid % Two12) * Two12 + al * bl
             high == ah * bh + (mid \div Two12) + (low \div Two24)
         IN  F32Round(high, low % Two24, Two24, a.e + b.e + 24)

\* a / b in f32 (b # 0).
F32Div(a, b) ==
    IF a.m = 0 THEN Zero32
    ELSE F32Round(a.m \div b.m, a.m % b.m, b.m, a.e - b.e)

\* a > b for the non-negative values of the model.
F32Gt(a, b) ==
    IF a.m = 0 THEN FALSE
    ELSE IF b.m = 0 THEN TRUE
    ELSE a.e > b.e \/ (a.e = b.e /\ a.m > b.m)

\* The cast `a as u64`: truncation toward zero.
F32ToU64(a) ==
    IF a.e >= 0 THEN a.m * (2 ^ a.e)
    ELSE IF a.e <= -24 THEN 0
    ELSE a.m \div (2 ^ (0 - a.e))

\* h.iter().sum::<f32>(): the fold from 0.0, front to back, rounding each add.
RECURSIVE F32SumFrom(_, _, _)
F32SumFrom(h, i, acc) ==
    IF i > Len(h) THEN acc ELSE F32SumFrom(h, i + 1, F32Add(acc, h[i]))

F32Sum(h) == F32SumFrom(h, 1, Zero32)

\* h.iter().sum::<u64>()
RECURSIVE U64SumFrom(_, _, _)
U64SumFrom(h, i, acc) ==
    IF i > Len(h) THEN acc ELSE U64SumFrom(h, i + 1, acc + h[i])

U64Sum(h) == U64SumFrom(h, 1, 0)

(***************************************************************************)
(* Monitor: the fields Monitor::new sets besides the windows, and the      *)
(* literals of the rules and of the window update.  OS is what the system  *)
(* reports about itself and CPU what it reports about its first CPU, with  *)
(* "Unknown" and 0 where it reports nothing.                               *)
(***************************************************************************)
HistoryCapacity == 30
SpikeFloor == [m |-> 10485760, e |-> -21]                   \* 5.0f32

OsInfos ==
    { [name |-> "Linux", hostname |-> "host"],
      [name |-> "Unknown", hostname |-> "Unknown"] }

CpuInfos ==
    { [brand |-> "cpu", physical_core_count |-> 4],
      [brand |-> "Unknown", physical_core_count |-> 0] }

HostOs == [name |-> "Linux", hostname |-> "host"]
HostCpu == [brand |-> "cpu", physical_core_count |-> 4]

MonitorNew(OS, CPU) ==
    /\ baseline_samples = 10
    /\ spike_threshold_multiplier = [m |-> 8388608, e |-> -22]    \* 2.0f32
    /\ memory_leak_threshold = [m |-> 10066330, e |-> -23]        \* 1.2f32
    /\ os_info \in OS
    /\ cpu_info \in CPU

(***************************************************************************)
(* The anomaly rules.                                                      *)
(***************************************************************************)
\* Mutant: the warm-up test counts the current sample as part of the baseline.
detect_cpu_spike_early(h, current_cpu) ==
    IF Len(h) + 1 < baseline_samples THEN FALSE
    ELSE LET avg == F32Div(F32Sum(h), F32FromInt(Len(h)))
             threshold == F32Mul(avg, spike_threshold_multiplier)
         IN  F32Gt(current_cpu, threshold) /\ F32Gt(avg, SpikeFloor)

\* Mutant: the test of the baseline against 5.0 is left out.
detect_cpu_spike_no_floor(h, current_cpu) ==
    IF Len(h) < baseline_samples THEN FALSE
    ELSE LET avg == F32Div(F32Sum(h), F32FromInt(Len(h)))
             threshold == F32Mul(avg, spike_threshold_multiplier)
         IN  F32Gt(current_cpu, threshold)

\* Mutant: the early return is left out.
detect_cpu_spike_run_unguarded(h, current_cpu) ==
    LET avg == F32Div(F32Sum(h), F32FromInt(Len(h)))
        threshold == F32Mul(avg, spike_threshold_multiplier)
    IN  [divisors |-> {Len(h)},
         result |-> F32Gt(current_cpu, threshold) /\ F32Gt(avg, SpikeFloor)]

\* One run of Monitor::detect_cpu_spike(&self, current_cpu) reading window h:
\* the lengths it divides by and the value it returns.
detect_cpu_spike_run(h, current_cpu) ==
    IF Len(h) < baseline_samples THEN [divisors |-> {}, result |-> FALSE]
    ELSE LET avg == F32Div(F32Sum(h), F32FromInt(Len(h)))
             threshold == F32Mul(avg, spike_threshold_multiplier)
         IN  [divisors |-> {Len(h)},
              result |-> F32Gt(current_cpu, threshold) /\ F32Gt(avg, SpikeFloor)]

\* Monitor::detect_cpu_spike(&self, current_cpu), reading window h.
detect_cpu_spike(h, current_cpu) == detect_cpu_spike_run(h, current_cpu).result

\* Mutant: a sample equal to the threshold is flagged.
detect_memory_leak_at_threshold(h, current_memory) ==
    IF Len(h) < baseline_samples THEN FALSE
    ELSE LET avg == U64Sum(h) \div Len(h)
             threshold == F32ToU64(F32Mul(F32FromInt(avg),
                                          memory_leak_threshold))
         IN  current_memory >= threshold /\ current_memory > avg

\* let avg: u64 = sum::<u64>() / len as u64, of a window that is not empty.
leak_avg(h) == U64Sum(h) \div Len(h)

\* Mutant: the average is divided by the factor.
leak_threshold_divided(h) ==
    F32ToU64(F32Div(F32FromInt(leak_avg(h)), memory_leak_threshold))

\* Mutant: the factor is cast to an integer before the multiplication.
leak_threshold_int_factor(h) == leak_avg(h) * F32ToU64(memory_leak_threshold)

\* let threshold = (avg as f32 * self.memory_leak_threshold) as u64
leak_threshold(h) ==
    F32ToU64(F32Mul(F32FromInt(leak_avg(h)), memory_leak_threshold))

\* One run of Monitor::detect_memory_leak(&self, current_memory) reading
\* window h: the lengths it divides by and the value it returns.
detect_memory_leak_run(h, current_memory) ==
    IF Len(h) < baseline_samples THEN [divisors |-> {}, result |-> FALSE]
    ELSE [divisors |-> {Len(h)},
          result |-> /\ current_memory > leak_threshold(h)
                     /\ current_memory > leak_avg(h)]

\* Monitor::detect_memory_leak(&self, current_memory), reading window h.
detect_memory_leak(h, current_memory) ==
    detect_memory_leak_run(h, current_memory).result

\* Mutant: push_back(x) with no eviction.
Push_no_pop(h, x) == Append(h, x)

\* Mutant: the newest element is removed instead of the oldest.
Push_pop_newest(h, x) ==
    LET pushed == Append(h, x)
    IN  IF Len(pushed) > HistoryCapacity
        THEN SubSeq(pushed, 1, HistoryCapacity) ELSE pushed

\* Mutant: the oldest element is removed as soon as the length reaches 30.
Push_early_evict(h, x) ==
    LET pushed == Append(h, x)
    IN  IF Len(pushed) >= HistoryCapacity THEN Tail(pushed) ELSE pushed

\* Mutant: a full window is left as it is.
Push_full_keeps(h, x) ==
    IF Len(h) >= HistoryCapacity THEN h ELSE Append(h, x)

\* push_back(x), then pop_front() if the length exceeds 30.
Push(h, x) ==
    LET pushed == Append(h, x)
    IN  IF Len(pushed) > HistoryCapacity THEN Tail(pushed) ELSE pushed

(***************************************************************************)
(* Per-disk record of collect_metrics.  A disk is [total, available] in    *)
(* units of 2^30 bytes, available <= total, so total_space and             *)
(* available_space (f64, in GB) and their difference are exact.  The f64   *)
(* quotient and product used_space / total_space * 100.0 are within 2^-52  *)
(* of the exact value, which for totals this small is nearer than any      *)
(* boundary between two f32 values unless the exact value is itself an     *)
(* f32; the cast to f32 therefore gives the f32 nearest 100 * used/total.  *)
(***************************************************************************)
\* Mutant: no test of total_space; 0.0 / 0.0 * 100.0 is NaN.
F32NaN == [m |-> 0, e |-> 128]
DiskUsagePercent_unguarded(total_space, available_space) ==
    LET used_space == total_space - available_space
    IN  IF total_space = 0 THEN F32NaN
        ELSE F32Round((used_space * 100) \div total_space,
                      (used_space * 100) % total_space, total_space, 0)

DiskUsagePercent(total_space, available_space) ==
    LET used_space == total_space - available_space
    IN  IF total_space > 0
        THEN F32Round((used_space * 100) \div total_space,
                      (used_space * 100) % total_space, total_space, 0)
        ELSE Zero32

DiskMetrics(d) ==
    [total_space_gb |-> d.total, available_space_gb |-> d.available,
     used_space_gb |-> d.total - d.available,
     usage_percent |-> DiskUsagePercent(d.total, d.available)]

(***************************************************************************)
(* Process metrics of collect_metrics.  A process is [pid, cpu_usage]; the *)
(* table is iterated in an order the hash map chooses.  sort_by is a       *)
(* stable sort; on values that are not NaN its comparator orders a before  *)
(* b exactly when a.cpu_usage > b.cpu_usage.                               *)
(***************************************************************************)
TopCount == 10

\* Where p goes into sorted: behind every element whose cpu_usage is not
\* smaller than its own.
InsertByCpuDesc(sorted, p) ==
    LET k == Cardinality({i \in DOMAIN sorted :
                             ~F32Gt(p.cpu_usage, sorted[i].cpu_usage)})
    IN  SubSeq(sorted, 1, k) \o <<p>> \o SubSeq(sorted, k + 1, Len(sorted))

RECURSIVE SortByCpuDescFrom(_, _, _)
SortByCpuDescFrom(ps, i, sorted) ==
    IF i > Len(ps) THEN sorted
    ELSE SortByCpuDescFrom(ps, i + 1, InsertByCpuDesc(sorted, ps[i]))

\* processes.sort_by(|a, b| b.cpu_usage().partial_cmp(&a.cpu_usage())...)
SortByCpuDesc(ps) == SortByCpuDescFrom(ps, 1, <<>>)

Take(q, n) == SubSeq(q, 1, IF Len(q) < n THEN Len(q) ELSE n)

\* Mutant: the first 10 processes are taken, then sorted.
TopProcesses_take_first(ps) == SortByCpuDesc(Take(ps, TopCount))

\* processes.iter().take(10).map(...).collect() of the sorted processes.
TopProcesses(ps) == Take(SortByCpuDesc(ps), TopCount)

(***************************************************************************)
(* The snapshot.  Of SystemMetrics the model keeps the two samples, the    *)
(* static information, the disk records, the process count and top         *)
(* processes, the two flags, and tick, the ordinal of the collect_metrics  *)
(* call that built it (the code's timestamp has one-second resolution and  *)
(* does not number the calls).                                             *)
(***************************************************************************)
NoMetrics ==
    [tick |-> 0, cpu_usage_percent |-> Zero32, memory_used_mb |-> 0,
     os_info |-> [name |-> "", hostname |-> ""],
     cpu_info |-> [brand |-> "", physical_core_count |-> 0],
     disks |-> <<>>, process_count |-> 0, top_processes |-> <<>>,
     cpu_spike_detected |-> FALSE, memory_leak_suspected |-> FALSE]

\* Mutant: the warm-up test of the CPU rule reads the memory window.
SystemMetrics_crossed(ch, mh, ds, ps, s, n) ==
    [tick |-> n, cpu_usage_percent |-> s.cpu, memory_used_mb |-> s.mem,
     os_info |-> os_info, cpu_info |-> cpu_info,
     disks |-> [i \in DOMAIN ds |-> DiskMetrics(ds[i])],
     process_count |-> Len(ps), top_processes |-> TopProcesses(ps),
     cpu_spike_detected |->
         IF Len(mh) < baseline_samples THEN FALSE
         ELSE detect_cpu_spike(ch, s.cpu),
     memory_leak_suspected |-> detect_memory_leak(mh, s.mem)]

\* The SystemMetrics built from windows ch, mh, disks ds, processes ps and
\* sample s on call number n.
SystemMetrics(ch, mh, ds, ps, s, n) ==
    [tick |-> n, cpu_usage_percent |-> s.cpu, memory_used_mb |-> s.mem,
     os_info |-> os_info, cpu_info |-> cpu_info,
     disks |-> [i \in DOMAIN ds |-> DiskMetrics(ds[i])],
     process_count |-> Len(ps), top_processes |-> TopProcesses(ps),
     cpu_spike_detected |-> detect_cpu_spike(ch, s.cpu),
     memory_leak_suspected |-> detect_memory_leak(mh, s.mem)]

\* Mutant: the samples are pushed first, then the rules read the windows.
collect_metrics_push_first(s, ds, ps) ==
    /\ disks' = ds
    /\ processes' = ps
    /\ metrics' = SystemMetrics(Push(cpu_history, s.cpu),
                                Push(memory_history, s.mem), ds, ps, s,
                                Len(sampled) + 1)
    /\ cpu_history' = Push(cpu_history, s.cpu)
    /\ memory_history' = Push(memory_history, s.mem)
    /\ UNCHANGED <<params, static_info>>

\* Mutant: the static information is read again on every call.
collect_metrics_rereads_info(s, ds, ps) ==
    /\ disks' = ds
    /\ processes' = ps
    /\ os_info' \in OsInfos
    /\ cpu_info' \in CpuInfos
    /\ metrics' = [SystemMetrics(cpu_history, memory_history, ds, ps, s,
                                 Len(sampled) + 1)
                       EXCEPT !.os_info = os_info', !.cpu_info = cpu_info']
    /\ cpu_history' = Push(cpu_history, s.cpu)
    /\ memory_history' = Push(memory_history, s.mem)
    /\ UNCHANGED params

\* Monitor::collect_metrics, where refresh() reads disks ds, processes ps and
\* the samples global_cpu = s.cpu, memory_used = s.mem: the rules read the
\* windows, then the samples are pushed.
collect_metrics(s, ds, ps) ==
    /\ disks' = ds
    /\ processes' = ps
    /\ metrics' = SystemMetrics(cpu_history, memory_history, ds, ps, s,
                                Len(sampled) + 1)
    /\ cpu_history' = Push(cpu_history, s.cpu)
    /\ memory_history' = Push(memory_history, s.mem)
    /\ UNCHANGED <<params, static_info>>

(***************************************************************************)
(* main: loop { interval.tick().await; collect_metrics(); emit }.           *)
(***************************************************************************)
\* The timer fires and collect_metrics runs, refresh() reading a sample of S,
\* a disk list of DS and a process table of PS.  A sample that differs from
\* the one before it is an irregular event.
Tick(S, DS, PS) ==
    /\ pc = "wait"
    /\ budget > 0
    /\ \E s \in S, ds \in DS, ps \in PS :
        LET changed == sampled # <<>> /\ sampled[Len(sampled)] # s
        IN  /\ changed => events > 0
            /\ events' = IF changed THEN events - 1 ELSE events
            /\ collect_metrics(s, ds, ps)
            /\ sampled' = Append(sampled, s)
    /\ budget' = budget - 1
    /\ pc' = "emit"
    /\ UNCHANGED <<stdout_len, stdout_last, stderr_len>>

\* Mutant: the line is printed twice.
EmitOk_twice ==
    /\ pc = "emit"
    /\ stdout_len' = stdout_len + 2
    /\ stdout_last' = metrics
    /\ metrics' = NoMetrics
    /\ pc' = "wait"
    /\ UNCHANGED <<cpu_history, memory_history, stderr_len, sampled, budget,
                   events, disks, processes, params, static_info>>

\* serde_json::to_string gives Ok(json): println!.
EmitOk ==
    /\ pc = "emit"
    /\ stdout_len' = stdout_len + 1
    /\ stdout_last' = metrics
    /\ metrics' = NoMetrics
    /\ pc' = "wait"
    /\ UNCHANGED <<cpu_history, memory_history, stderr_len, sampled, budget,
                   events, disks, processes, params, static_info>>

\* Mutant: the error is reported and the loop is left.
EmitErr_exits ==
    /\ pc = "emit"
    /\ events > 0
    /\ events' = events - 1
    /\ stderr_len' = stderr_len + 1
    /\ metrics' = NoMetrics
    /\ pc' = "exit"
    /\ UNCHANGED <<cpu_history, memory_history, stdout_len, stdout_last,
                   sampled, budget, disks, processes, params, static_info>>

\* Mutant: the samples of the tick are taken back out of the windows.
EmitErr_drops_sample ==
    /\ pc = "emit"
    /\ events > 0
    /\ events' = events - 1
    /\ stderr_len' = stderr_len + 1
    /\ metrics' = NoMetrics
    /\ pc' = "wait"
    /\ cpu_history' = SubSeq(cpu_history, 1, Len(cpu_history) - 1)
    /\ memory_history' = SubSeq(memory_history, 1, Len(memory_history) - 1)
    /\ UNCHANGED <<stdout_len, stdout_last, sampled, budget, disks, processes,
                   params, static_info>>

\* serde_json::to_string gives Err(e): eprintln!.  A failure is an irregular
\* event.
EmitErr ==
    /\ pc = "emit"
    /\ events > 0
    /\ events' = events - 1
    /\ stderr_len' = stderr_len + 1
    /\ metrics' = NoMetrics
    /\ pc' = "wait"
    /\ UNCHANGED <<cpu_history, memory_history, stdout_len, stdout_last,
                   sampled, budget, disks, processes, params, static_info>>

(***************************************************************************)
(* Samples the environment delivers.                                       *)
(***************************************************************************)
Sample(c, mb) == [cpu |-> c, mem |-> mb]

F32BelowTen == [m |-> 10485759, e |-> -20]     \* 10.0 - 2^-20

MainSamples ==
    { Sample(F32FromInt(10), 1000), Sample(F32FromInt(21), 1100),
      Sample(F32FromInt(25), 1201) }

\* Window contents and current samples of the runs that start mid-way.
MidBase ==
    { Sample(F32FromInt(10), 1000), Sample(F32BelowTen, 1001),
      Sample(F32FromInt(5), 1000) }

MidSamples ==
    { Sample(F32FromInt(19), 1199), Sample(F32FromInt(20), 1200),
      Sample(F32FromInt(21), 1201), Sample(F32FromInt(25), 1000) }

DiskSet ==
    { d \in [total : 0..MaxDiskUnits, available : 0..MaxDiskUnits] :
          d.available <= d.total }

DiskLists == UNION { [1..n -> DiskSet] : n \in 0..MaxDisks }

\* Memory windows of the runs that examine the leak rule: small averages,
\* an ordinary one, and averages where the single-precision product departs
\* from 1.2 * avg by one and by two.
LeakBase == { 0, 1, 4, 999, 1747629, 13981013, 13981014 }

\* Current samples about the average and the threshold of window h.
NearLeak(h) ==
    LET avg == U64Sum(h) \div Len(h)
    IN  {avg, avg + 1} \cup { (6 * avg) \div 5 + k : k \in 0..3 }

\* Process tables of up to MaxProcs processes, at most MaxBusy of them busy.
BusyCpu == { F32FromInt(1), F32FromInt(2) }

ProcessLists ==
    UNION { UNION { { [i \in 1..n |->
                        [pid |-> i,
                         cpu_usage |-> IF i \in B THEN f[i] ELSE Zero32]]
                      : f \in [B -> BusyCpu] }
                    : B \in { X \in SUBSET (1..n) : Cardinality(X) <= MaxBusy } }
            : n \in 0..MaxProcs }

(***************************************************************************)
(* Specifications.                                                         *)
(***************************************************************************)
\* Monitor::new, then main up to its first interval.tick().await.
Init ==
    /\ MonitorNew({HostOs}, {HostCpu})
    /\ cpu_history = <<>>
    /\ memory_history = <<>>
    /\ pc = "wait"
    /\ metrics = NoMetrics
    /\ stdout_len = 0
    /\ stdout_last = NoMetrics
    /\ stderr_len = 0
    /\ sampled = <<>>
    /\ budget = MaxTicks
    /\ events = MaxEvents
    /\ disks = <<>>
    /\ processes = <<>>

Next ==
    \/ Tick(MainSamples, {<<>>}, {<<>>})
    \/ EmitOk
    \/ EmitErr

Spec == Init /\ [][Next]_vars

\* The loop from its start, over MaxLoopTicks ticks.
InitLoop ==
    /\ MonitorNew({HostOs}, {HostCpu})
    /\ cpu_history = <<>>
    /\ memory_history = <<>>
    /\ pc = "wait"
    /\ metrics = NoMetrics
    /\ stdout_len = 0
    /\ stdout_last = NoMetrics
    /\ stderr_len = 0
    /\ sampled = <<>>
    /\ budget = MaxLoopTicks
    /\ events = MaxEvents
    /\ disks = <<>>
    /\ processes = <<>>

SpecLoop == InitLoop /\ [][Next]_vars

\* The timer of tokio::time::interval fires every second and the loop body
\* runs to its end without suspension.  A step that leaves the wait is a
\* Tick step, and Tick is enabled exactly when the loop waits and a tick is
\* left, so the first condition is weak fairness of Tick, stated on pc.
FairSpec ==
    /\ SpecLoop
    /\ WF_pc(pc = "wait" /\ budget > 0 /\ pc' = "emit")
    /\ WF_vars(EmitOk \/ EmitErr)

\* A run taken up after n ticks whose samples were n - j times p, then j
\* times q, every snapshot having been written.
InitMid ==
    /\ MonitorNew({HostOs}, {HostCpu})
    /\ \E p \in MidBase, q \in MidBase, n \in 0..HistoryCapacity, j \in 0..MaxTail :
        LET w == [i \in 1..n |-> IF i <= n - j THEN p ELSE q]
            ch == [i \in 1..n |-> w[i].cpu]
            mh == [i \in 1..n |-> w[i].mem]
        IN  /\ j <= n
            /\ sampled = w
            /\ cpu_history = ch
            /\ memory_history = mh
            /\ pc = "wait"
            /\ metrics = NoMetrics
            /\ stdout_len = n
            /\ stdout_last =
                 IF n = 0 THEN NoMetrics
                 ELSE SystemMetrics(SubSeq(ch, 1, n - 1), SubSeq(mh, 1, n - 1),
                                    <<>>, <<>>, w[n], n)
            /\ stderr_len = 0
            /\ budget = MaxMidTicks
            /\ events = MaxMidTicks
            /\ disks = <<>>
            /\ processes = <<>>
    /\ processes = <<>>

NextMid ==
    \/ Tick(MidSamples, {<<>>}, {<<>>})
    \/ EmitOk
    \/ EmitErr

SpecMid == InitMid /\ [][NextMid]_vars

\* One collect_metrics call over each list of disks.
InitDisk ==
    /\ MonitorNew({HostOs}, {HostCpu})
    /\ cpu_history = <<>>
    /\ memory_history = <<>>
    /\ pc = "wait"
    /\ metrics = NoMetrics
    /\ stdout_len = 0
    /\ stdout_last = NoMetrics
    /\ stderr_len = 0
    /\ sampled = <<>>
    /\ budget = 1
    /\ events = 1
    /\ disks = <<>>
    /\ processes = <<>>

NextDisk ==
    \/ Tick({Sample(F32FromInt(10), 1000)}, DiskLists, {<<>>})
    \/ EmitOk
    \/ EmitErr

SpecDisk == InitDisk /\ [][NextDisk]_vars

\* A run taken up after n >= 10 ticks whose memory samples were n - j times
\* b, then j times b + 1, every snapshot having been written.
InitLeak ==
    /\ MonitorNew({HostOs}, {HostCpu})
    /\ \E b \in LeakBase, n \in 10..HistoryCapacity, j \in 0..MaxTail :
        LET w == [i \in 1..n |->
                     Sample(F32FromInt(10), IF i <= n - j THEN b ELSE b + 1)]
            ch == [i \in 1..n |-> w[i].cpu]
            mh == [i \in 1..n |-> w[i].mem]
        IN  /\ sampled = w
            /\ cpu_history = ch
            /\ memory_history = mh
            /\ pc = "wait"
            /\ metrics = NoMetrics
            /\ stdout_len = n
            /\ stdout_last =
                 SystemMetrics(SubSeq(ch, 1, n - 1), SubSeq(mh, 1, n - 1),
                               <<>>, <<>>, w[n], n)
            /\ stderr_len = 0
            /\ budget = 1
            /\ events = 1
            /\ disks = <<>>
            /\ processes = <<>>

NextLeak ==
    \/ Tick({ Sample(F32FromInt(10), c) : c \in NearLeak(memory_history) },
            {<<>>}, {<<>>})
    \/ EmitOk
    \/ EmitErr

SpecLeak == InitLeak /\ [][NextLeak]_vars

\* The loop from its start, for each answer of the system about itself.
InitInfo ==
    /\ MonitorNew(OsInfos, CpuInfos)
    /\ cpu_history = <<>>
    /\ memory_history = <<>>
    /\ pc = "wait"
    /\ metrics = NoMetrics
    /\ stdout_len = 0
    /\ stdout_last = NoMetrics
    /\ stderr_len = 0
    /\ sampled = <<>>
    /\ budget = MaxInfoTicks
    /\ events = MaxEvents
    /\ disks = <<>>
    /\ processes = <<>>

SpecInfo == InitInfo /\ [][Next]_vars

\* The loop from its start, with a change of sample and a failed emission.
InitFail ==
    /\ MonitorNew({HostOs}, {HostCpu})
    /\ cpu_history = <<>>
    /\ memory_history = <<>>
    /\ pc = "wait"
    /\ metrics = NoMetrics
    /\ stdout_len = 0
    /\ stdout_last = NoMetrics
    /\ stderr_len = 0
    /\ sampled = <<>>
    /\ budget = MaxLoopTicks
    /\ events = 2
    /\ disks = <<>>
    /\ processes = <<>>

SpecFail == InitFail /\ [][Next]_vars

\* A run taken up after 30 ticks whose samples were 30 - j times p, then j
\* times q, every snapshot having been written.
InitSteady ==
    /\ MonitorNew({HostOs}, {HostCpu})
    /\ \E p \in MainSamples, q \in MainSamples, j \in 0..MaxTail :
        LET n == HistoryCapacity
            w == [i \in 1..n |-> IF i <= n - j THEN p ELSE q]
            ch == [i \in 1..n |-> w[i].cpu]
            mh == [i \in 1..n |-> w[i].mem]
        IN  /\ sampled = w
            /\ cpu_history = ch
            /\ memory_history = mh
            /\ pc = "wait"
            /\ metrics = NoMetrics
            /\ stdout_len = n
            /\ stdout_last =
                 SystemMetrics(SubSeq(ch, 1, n - 1), SubSeq(mh, 1, n - 1),
                               <<>>, <<>>, w[n], n)
            /\ stderr_len = 0
            /\ budget = MaxTicks
            /\ events = 1
            /\ disks = <<>>
            /\ processes = <<>>

SpecSteady == InitSteady /\ [][Next]_vars

\* One collect_metrics call over each process table.
InitProc ==
    /\ MonitorNew({HostOs}, {HostCpu})
    /\ cpu_history = <<>>
    /\ memory_history = <<>>
    /\ pc = "wait"
    /\ metrics = NoMetrics
    /\ stdout_len = 0
    /\ stdout_last = NoMetrics
    /\ stderr_len = 0
    /\ sampled = <<>>
    /\ budget = 1
    /\ events = 1
    /\ disks = <<>>
    /\ processes = <<>>

NextProc ==
    \/ Tick({Sample(F32FromInt(10), 1000)}, {<<>>}, ProcessLists)
    \/ EmitOk
    \/ EmitErr

SpecProc == InitProc /\ [][NextProc]_vars

(***************************************************************************)
(* Notions the properties are stated in.                                   *)
(***************************************************************************)
Min(a, b) == IF a <= b THEN a ELSE b
Max(a, b) == IF a >= b THEN a ELSE b

Ticks == Len(sampled)
CpuOf(w) == [i \in 1..Len(w) |-> w[i].cpu]
MemOf(w) == [i \in 1..Len(w) |-> w[i].mem]

\* The last n of the samples w, oldest first.
LastN(w, n) == SubSeq(w, Len(w) - n + 1, Len(w))

\* The samples a full history of the ticks before the latest one holds.
PriorSamples ==
    LastN(SubSeq(sampled, 1, Ticks - 1), Min(Ticks - 1, HistoryCapacity))

Ten32 == F32FromInt(10)
TenTensThen(c) ==
    /\ Ticks = baseline_samples + 1
    /\ \A i \in 1..baseline_samples : sampled[i].cpu = Ten32
    /\ sampled[Ticks].cpu = c

(***************************************************************************)
(* C1.  The flags of a snapshot are the rules' verdicts on the windows as  *)
(* they were before the tick's sample was pushed: the windows then held    *)
(* the (at most 30) samples of the earlier ticks, without the current one; *)
(* when the snapshot is returned the sample has been pushed.  From empty   *)
(* windows, ten ticks of CPU 10.0 and an eleventh of 25.0 give             *)
(* cpu_spike_detected, against an average of exactly 10.0.                 *)
(***************************************************************************)
C1_FlagsFromPriorHistory ==
    pc = "emit" =>
        LET s == sampled[Ticks]
            prior == PriorSamples
        IN  /\ metrics.cpu_spike_detected = detect_cpu_spike(CpuOf(prior), s.cpu)
            /\ metrics.memory_leak_suspected
                   = detect_memory_leak(MemOf(prior), s.mem)
            /\ cpu_history = CpuOf(LastN(sampled, Min(Ticks, HistoryCapacity)))
            /\ memory_history
                   = MemOf(LastN(sampled, Min(Ticks, HistoryCapacity)))
            /\ TenTensThen(F32FromInt(25)) =>
                   /\ metrics.cpu_spike_detected
                   /\ F32Div(F32Sum(CpuOf(prior)), F32FromInt(Len(prior)))
                          = Ten32

C1_Witness ==
    /\ pc = "emit"
    /\ TenTensThen(F32FromInt(25))
    /\ metrics.cpu_spike_detected
    /\ cpu_history[Len(cpu_history)] = F32FromInt(25)

(***************************************************************************)
(* C2.  Each history window holds at most 30 samples in every state.       *)
(***************************************************************************)
C2_WindowsBounded ==
    /\ Len(cpu_history) <= 30
    /\ Len(memory_history) <= 30

C2_Witness ==
    /\ pc = "wait"
    /\ Ticks > 30
    /\ Len(cpu_history) = 30
    /\ Len(memory_history) = 30

(***************************************************************************)
(* C3.  A rule reading a window of fewer than 10 samples answers false for *)
(* every current sample, so the snapshots of ticks 1..10 carry both flags  *)
(* false; the 11th tick is the first that can carry a true flag.           *)
(***************************************************************************)
C3_WarmUp ==
    /\ Len(cpu_history) < 10 =>
           \A s \in MainSamples \cup MidSamples :
               ~detect_cpu_spike(cpu_history, s.cpu)
    /\ Len(memory_history) < 10 =>
           \A s \in MainSamples \cup MidSamples :
               ~detect_memory_leak(memory_history, s.mem)
    /\ \A snap \in {metrics, stdout_last} :
           snap.tick <= 10 =>
               ~snap.cpu_spike_detected /\ ~snap.memory_leak_suspected

C3_Witness ==
    /\ stdout_last.tick = 11
    /\ stdout_last.cpu_spike_detected
    /\ stdout_last.memory_leak_suspected
    /\ stdout_len = 11

(***************************************************************************)
(* Exact arithmetic on the CPU samples of the model, all of them multiples *)
(* of 2^-20: a sample counted in units of 2^-20.                           *)
(***************************************************************************)
ExactUnits(x) ==
    IF x.e >= -20 THEN x.m * (2 ^ (x.e + 20)) ELSE x.m \div (2 ^ (-20 - x.e))

ExactSum(h) == U64Sum([i \in 1..Len(h) |-> ExactUnits(h[i])])

\* current > 2 * mean /\ mean > 5, mean being the exact arithmetic mean of h.
ExactSpike(h, current) ==
    /\ ExactUnits(current) * Len(h) > 2 * ExactSum(h)
    /\ ExactSum(h) > 5 * (2 ^ 20) * Len(h)

\* The mean as single precision computes it: the sum taken front to back,
\* each addition rounded, then divided by the length, rounded.
Mean32(h) == F32Div(F32Sum(h), F32FromInt(Len(h)))

\* 2 * a, exact in single precision.
Twice32(a) == IF a.m = 0 THEN a ELSE [m |-> a.m, e |-> a.e + 1]

TenOf(x) == [i \in 1..10 |-> x]

(***************************************************************************)
(* C4 as stated.  With at least 10 samples in the CPU window, the verdict  *)
(* is true iff current > avg * 2.0 and avg > 5.0, avg being the arithmetic *)
(* mean of the samples in the window.                                      *)
(***************************************************************************)
C4_SpikeRuleExactMean ==
    (pc = "emit" /\ Len(PriorSamples) >= 10) =>
        (metrics.cpu_spike_detected
            <=> ExactSpike(CpuOf(PriorSamples), sampled[Ticks].cpu))

(***************************************************************************)
(* C4, amended.  With at least 10 samples in the CPU window, the verdict   *)
(* is true iff current > avg * 2.0 and avg > 5.0, avg being the mean as    *)
(* computed in single precision (rounded sum, rounded quotient).  So when  *)
(* avg <= 5.0 the verdict is false, and for ten samples of 10.0 the        *)
(* average is 10.0 and 21.0 is flagged while 19.0 and 20.0 are not.        *)
(***************************************************************************)
C4_SpikeRuleF32Mean ==
    (pc = "emit" /\ Len(PriorSamples) >= 10) =>
        LET h == CpuOf(PriorSamples)
            current == sampled[Ticks].cpu
            avg == Mean32(h)
        IN  /\ metrics.cpu_spike_detected
                   <=> (F32Gt(current, Twice32(avg)) /\ F32Gt(avg, F32FromInt(5)))
            /\ ~F32Gt(avg, F32FromInt(5)) => ~metrics.cpu_spike_detected
            /\ h = TenOf(Ten32) =>
                   /\ avg = Ten32
                   /\ current = F32FromInt(21) => metrics.cpu_spike_detected
                   /\ current \in {F32FromInt(19), F32FromInt(20)}
                          => ~metrics.cpu_spike_detected

C4_Witness ==
    /\ pc = "emit"
    /\ CpuOf(PriorSamples) = TenOf(Ten32)
    /\ sampled[Ticks].cpu = F32FromInt(21)
    /\ metrics.cpu_spike_detected

(***************************************************************************)
(* C5 as stated.  With at least 10 samples in the memory window, the       *)
(* verdict is true iff current > avg * 1.2 and current > avg, avg being    *)
(* the arithmetic mean of the samples in the window.                       *)
(***************************************************************************)
C5_LeakRuleExactMean ==
    (pc = "emit" /\ Len(PriorSamples) >= 10) =>
        LET h == MemOf(PriorSamples)
            current == sampled[Ticks].mem
        IN  metrics.memory_leak_suspected
                <=> /\ 5 * current * Len(h) > 6 * U64Sum(h)
                    /\ current * Len(h) > U64Sum(h)

(***************************************************************************)
(* C5, amended.  With at least 10 samples in the memory window, the        *)
(* verdict is true iff current > threshold and current > avg, where avg is *)
(* the mean truncated to an integer and threshold is the single precision  *)
(* product of avg and 1.2, truncated to an integer: floor(1.2 * avg) for   *)
(* the sizes of the model.  For ten samples of 1000, 1201 is flagged and   *)
(* 1199 and 1200 are not.                                                  *)
(***************************************************************************)
C5_LeakRuleTruncated ==
    (pc = "emit" /\ Len(PriorSamples) >= 10) =>
        LET h == MemOf(PriorSamples)
            current == sampled[Ticks].mem
            avg == U64Sum(h) \div Len(h)
            threshold == F32ToU64(F32Mul(F32FromInt(avg), memory_leak_threshold))
        IN  /\ metrics.memory_leak_suspected
                   <=> (current > threshold /\ current > avg)
            /\ threshold = (6 * avg) \div 5
            /\ h = TenOf(1000) =>
                   /\ current = 1201 => metrics.memory_leak_suspected
                   /\ current \in {1199, 1200} => ~metrics.memory_leak_suspected

C5_Witness ==
    /\ pc = "emit"
    /\ MemOf(PriorSamples) = TenOf(1000)
    /\ sampled[Ticks].mem = 1201
    /\ metrics.memory_leak_suspected

(***************************************************************************)
(* C6.  A failed serialization does not stop the loop: the step that       *)
(* reports it on standard error writes nothing to standard output, leaves  *)
(* the monitor as it is and returns the loop to its wait, where, as after  *)
(* a successful emission, the next tick runs while ticks are delivered.    *)
(***************************************************************************)
C6_FailureDoesNotStopLoop ==
    /\ [][stderr_len' # stderr_len =>
              /\ pc = "emit" /\ pc' = "wait"
              /\ stderr_len' = stderr_len + 1
              /\ stdout_len' = stdout_len /\ stdout_last' = stdout_last
              /\ metrics' = NoMetrics
              /\ UNCHANGED <<cpu_history, memory_history, sampled, budget,
                             disks, processes>>]_vars
    /\ \A k \in 0..MaxLoopTicks :
           (stderr_len > 0 /\ pc = "wait" /\ budget > 0 /\ Ticks = k)
               ~> (pc = "emit" /\ Ticks = k + 1)

C6_Witness ==
    /\ pc = "emit"
    /\ stderr_len = 1
    /\ stdout_len = Ticks - 2
    /\ metrics.tick = Ticks

(***************************************************************************)
(* C7.  The loop is at its wait or between collect_metrics and the         *)
(* emission, nowhere else.  A step from the wait is one collect_metrics    *)
(* call, numbered next; the step after it is one emission attempt for that *)
(* snapshot, back to the wait: a line on standard output, which is that    *)
(* snapshot and later than the line before it, or a report on standard     *)
(* error.  So every tick has had exactly one attempt and at most one line. *)
(* The emission always follows, and while the environment delivers ticks   *)
(* another tick always follows.                                            *)
(***************************************************************************)
C7_Scheduler ==
    /\ [](pc \in {"wait", "emit"})
    /\ [](stdout_len + stderr_len = IF pc = "emit" THEN Ticks - 1 ELSE Ticks)
    /\ [](pc = "emit" => metrics.tick = Ticks /\ stdout_last.tick < Ticks)
    /\ [][IF pc = "wait"
          THEN /\ pc' = "emit"
               /\ Len(sampled') = Len(sampled) + 1
               /\ metrics'.tick = Len(sampled')
               /\ UNCHANGED <<stdout_len, stdout_last, stderr_len>>
          ELSE /\ pc' = "wait"
               /\ sampled' = sampled
               /\ \/ /\ stdout_len' = stdout_len + 1
                     /\ stdout_last' = metrics
                     /\ stdout_last'.tick > stdout_last.tick
                     /\ stderr_len' = stderr_len
                  \/ /\ stderr_len' = stderr_len + 1
                     /\ UNCHANGED <<stdout_len, stdout_last>>]_vars
    /\ (pc = "emit") ~> (pc = "wait")
    /\ (pc = "wait" /\ budget > 0) ~> (pc = "emit")

C7_Witness ==
    /\ pc = "wait"
    /\ Ticks = 12
    /\ stdout_len = 12
    /\ stdout_last.tick = 12

(***************************************************************************)
(* C8.  Each window is a FIFO: after n ticks it is the sequence of the     *)
(* last min(n, 30) samples, oldest first.                                  *)
(***************************************************************************)
C8_Fifo ==
    LET kept == LastN(sampled, Min(Ticks, 30))
    IN  /\ cpu_history = CpuOf(kept)
        /\ memory_history = MemOf(kept)

C8_Witness ==
    /\ Ticks > 30
    /\ cpu_history[1] # sampled[1].cpu
    /\ memory_history[1] # sampled[1].mem
    /\ cpu_history[30] = sampled[Ticks].cpu

(***************************************************************************)
(* C9.  After k ticks both windows have length min(k, 30).  A tick appends *)
(* its sample to each window and removes at most the oldest element; no    *)
(* other step changes a window.                                            *)
(***************************************************************************)
C9_OnePushEach ==
    /\ [](/\ Len(cpu_history) = Min(Ticks, 30)
          /\ Len(memory_history) = Min(Ticks, 30))
    /\ [][IF pc = "wait"
          THEN LET s == sampled'[Len(sampled')]
               IN  /\ Len(sampled') = Len(sampled) + 1
                   /\ cpu_history' \in {Append(cpu_history, s.cpu),
                                       Tail(Append(cpu_history, s.cpu))}
                   /\ memory_history' \in {Append(memory_history, s.mem),
                                          Tail(Append(memory_history, s.mem))}
          ELSE UNCHANGED <<cpu_history, memory_history, sampled>>]_vars

C9_Witness ==
    /\ pc = "wait"
    /\ Ticks = 31
    /\ Len(cpu_history) = 30
    /\ Len(memory_history) = 30

(***************************************************************************)
(* C10.  In every disk record of a snapshot, usage_percent is exactly 0    *)
(* when the disk's total space is 0, and otherwise the single-precision    *)
(* value of (total - available) / total * 100: a normal f32 within half a  *)
(* unit in the last place of that quotient.                                *)
(***************************************************************************)
IsNearest32(p, num, den) ==
    IF num = 0 THEN p = Zero32
    ELSE /\ p.m >= Two23 /\ p.m < Two24 /\ p.e < 0
         /\ LET diff == 2 * p.m * den - 2 * num * (2 ^ (0 - p.e))
            IN  diff <= den /\ 0 - diff <= den

C10_DiskUsage ==
    pc = "emit" =>
        /\ Len(metrics.disks) = Len(disks)
        /\ \A i \in DOMAIN disks :
               LET d == disks[i]
                   p == metrics.disks[i].usage_percent
               IN  /\ d.total = 0 => p = Zero32
                   /\ d.total > 0 =>
                          IsNearest32(p, 100 * (d.total - d.available), d.total)

C10_Witness ==
    /\ pc = "emit"
    /\ \E i \in DOMAIN disks, j \in DOMAIN disks :
           /\ disks[i].total = 0
           /\ metrics.disks[i].usage_percent = Zero32
           /\ disks[j] = [total |-> 3, available |-> 2]
           /\ metrics.disks[j].usage_percent = [m |-> 8738133, e |-> -18]

(***************************************************************************)
(* C11.  In every snapshot top_processes has min(10, process_count)        *)
(* entries, each a different process of the table, in order of             *)
(* non-increasing cpu_usage, and no process left out has a cpu_usage       *)
(* greater than that of a listed one.                                      *)
(***************************************************************************)
C11_TopProcesses ==
    pc = "emit" =>
        LET top == metrics.top_processes
            listed == { top[i].pid : i \in DOMAIN top }
        IN  /\ metrics.process_count = Len(processes)
            /\ Len(top) = Min(10, metrics.process_count)
            /\ Cardinality(listed) = Len(top)
            /\ \A i \in DOMAIN top :
                   \E k \in DOMAIN processes : processes[k] = top[i]
            /\ \A i \in DOMAIN top, j \in DOMAIN top :
                   i < j => ~F32Gt(top[j].cpu_usage, top[i].cpu_usage)
            /\ \A k \in DOMAIN processes :
                   processes[k].pid \notin listed =>
                       \A i \in DOMAIN top :
                           ~F32Gt(processes[k].cpu_usage, top[i].cpu_usage)

C11_Witness ==
    /\ pc = "emit"
    /\ metrics.process_count = 11
    /\ Len(metrics.top_processes) = 10
    /\ metrics.top_processes[1].pid = 11
    /\ metrics.top_processes[1].cpu_usage = F32FromInt(2)
    /\ metrics.top_processes[2].cpu_usage = F32FromInt(1)
    /\ metrics.top_processes[10].pid = 9

(***************************************************************************)
(* The least current sample a rule flags on window h.  Both rules compare  *)
(* current with bounds that do not depend on it, so m is the least flagged *)
(* sample when m is flagged and m - 1 is not.                              *)
(***************************************************************************)
IsLeastLeak(h, m) ==
    /\ detect_memory_leak(h, m)
    /\ m > 0 => ~detect_memory_leak(h, m - 1)
    /\ ~detect_memory_leak(h, U64Sum(h) \div Len(h))

\* floor(1.2 * sum / len), sum and len being those of h.
FullPrecisionFloor(h) ==
    LET n == Len(h)
        a == U64Sum(h) \div n
        r == U64Sum(h) % n
    IN  (6 * a) \div 5 + ((((6 * a) % 5) * n + 6 * r) \div (5 * n))

\* The least integer current with current > 1.2 * sum / len.
LeastFullPrecision(h) == FullPrecisionFloor(h) + 1

WithinOneOfFullPrecision(h) ==
    \E m \in (LeastFullPrecision(h) - 1)..(LeastFullPrecision(h) + 1) :
        IsLeastLeak(h, m)

(***************************************************************************)
(* C12 as stated.  For every memory window of 10..30 samples the least     *)
(* current sample the implemented rule flags is within 1 MB of the least   *)
(* one the full-precision rule current > 1.2 * sum / len flags.            *)
(***************************************************************************)
C12_WithinOneMB ==
    Len(memory_history) >= 10 => WithinOneOfFullPrecision(memory_history)

(***************************************************************************)
(* C12, amended.  The same, for the windows whose truncated average is     *)
(* below 13,981,014 MB.                                                    *)
(***************************************************************************)
C12_WithinOneMBBelowLimit ==
    (Len(memory_history) >= 10 /\ leak_avg(memory_history) < 13981014) =>
        WithinOneOfFullPrecision(memory_history)

C12_Witness ==
    /\ pc = "emit"
    /\ Len(PriorSamples) = 10
    /\ leak_avg(MemOf(PriorSamples)) = 999
    /\ LeastFullPrecision(MemOf(PriorSamples)) = 1200
    /\ sampled[Ticks].mem = 1199
    /\ metrics.memory_leak_suspected

(***************************************************************************)
(* C13.  In detect_memory_leak the threshold is never below the average,   *)
(* so current > threshold implies current > avg and the verdict is         *)
(* current > threshold alone, for every window the rule evaluates and      *)
(* every current sample.                                                   *)
(***************************************************************************)
C13_SecondClauseRedundant ==
    /\ Len(memory_history) >= 10 =>
           /\ leak_threshold(memory_history) >= leak_avg(memory_history)
           /\ \A c \in NearLeak(memory_history) \cup {0} :
                  /\ c > leak_threshold(memory_history)
                         => c > leak_avg(memory_history)
                  /\ detect_memory_leak(memory_history, c)
                         <=> c > leak_threshold(memory_history)
    /\ (pc = "emit" /\ Len(PriorSamples) >= 10) =>
           (metrics.memory_leak_suspected
               <=> sampled[Ticks].mem > leak_threshold(MemOf(PriorSamples)))

C13_Witness ==
    /\ pc = "emit"
    /\ Len(PriorSamples) >= 10
    /\ leak_avg(MemOf(PriorSamples)) = 4
    /\ leak_threshold(MemOf(PriorSamples)) = 4
    /\ sampled[Ticks].mem = 5
    /\ metrics.memory_leak_suspected

(***************************************************************************)
(* C14.  A rule divides by the length of its window only when the window   *)
(* holds at least 10 samples: on every reachable window and for every      *)
(* current sample, and in the run that produced the snapshot at hand.  A   *)
(* window of fewer than 10 samples is not divided by at all.               *)
(***************************************************************************)
C14_NoDivisionByZero ==
    /\ \A s \in MidSamples :
           LET cpu_run == detect_cpu_spike_run(cpu_history, s.cpu)
               mem_run == detect_memory_leak_run(memory_history, s.mem)
           IN  /\ \A d \in cpu_run.divisors \cup mem_run.divisors : d >= 10
               /\ Len(cpu_history) < 10 => cpu_run.divisors = {}
               /\ Len(memory_history) < 10 => mem_run.divisors = {}
    /\ pc = "emit" =>
           LET cpu_run == detect_cpu_spike_run(CpuOf(PriorSamples),
                                               sampled[Ticks].cpu)
               mem_run == detect_memory_leak_run(MemOf(PriorSamples),
                                                 sampled[Ticks].mem)
           IN  /\ metrics.cpu_spike_detected = cpu_run.result
               /\ metrics.memory_leak_suspected = mem_run.result
               /\ \A d \in cpu_run.divisors \cup mem_run.divisors : d >= 10

C14_Witness ==
    /\ pc = "emit"
    /\ Len(PriorSamples) = 10
    /\ detect_cpu_spike_run(CpuOf(PriorSamples), sampled[Ticks].cpu).divisors
           = {10}
    /\ detect_memory_leak_run(MemOf(PriorSamples), sampled[Ticks].mem).divisors
           = {10}
    /\ metrics.cpu_spike_detected

(***************************************************************************)
(* C15.  In the collect_metrics call of a tick the rules leave the windows *)
(* and the baseline parameters as they are (the windows change by the push *)
(* of the tick's sample alone), the CPU verdict is the rule's value on the *)
(* CPU window and the CPU sample, whatever the memory window holds, and    *)
(* the memory verdict is the rule's value on the memory window and the     *)
(* memory sample, whatever the CPU window holds.                           *)
(***************************************************************************)
AltWindows == { [i \in 1..n |-> q] : n \in {0, 10}, q \in MidSamples }

C15_RulesPureAndIndependent ==
    [][pc = "wait" =>
          LET s == sampled'[Len(sampled')]
              n == Len(sampled')
          IN  /\ metrics'.cpu_spike_detected = detect_cpu_spike(cpu_history, s.cpu)
              /\ metrics'.memory_leak_suspected
                     = detect_memory_leak(memory_history, s.mem)
              /\ \A w \in AltWindows :
                     /\ SystemMetrics(cpu_history, MemOf(w), disks', processes',
                                      s, n).cpu_spike_detected
                            = metrics'.cpu_spike_detected
                     /\ SystemMetrics(CpuOf(w), memory_history, disks',
                                      processes', s, n).memory_leak_suspected
                            = metrics'.memory_leak_suspected
              /\ cpu_history' = Push(cpu_history, s.cpu)
              /\ memory_history' = Push(memory_history, s.mem)
              /\ UNCHANGED params]_vars

C15_Witness ==
    /\ pc = "emit"
    /\ Len(PriorSamples) >= 10
    /\ metrics.cpu_spike_detected
    /\ ~metrics.memory_leak_suspected
    /\ sampled[Ticks].mem < sampled[Ticks - 1].mem

(***************************************************************************)
(* C16.  No step changes baseline_samples = 10, the spike multiplier 2.0,  *)
(* the leak factor 1.2, os_info or cpu_info, and every snapshot, returned  *)
(* or written, carries the os_info and cpu_info of the Monitor, which are  *)
(* therefore those captured by Monitor::new.                               *)
(***************************************************************************)
C16_StaticFieldsUnchanged ==
    /\ [][UNCHANGED <<params, static_info>>]_vars
    /\ [](/\ baseline_samples = 10
          /\ spike_threshold_multiplier = [m |-> Two23, e |-> -22]
          /\ memory_leak_threshold = [m |-> 10066330, e |-> -23])
    /\ [](\A snap \in {metrics, stdout_last} :
              snap.tick > 0 =>
                  snap.os_info = os_info /\ snap.cpu_info = cpu_info)

C16_Witness ==
    /\ stdout_len = 3
    /\ stdout_last.tick = 3
    /\ stdout_last.os_info = [name |-> "Unknown", hostname |-> "Unknown"]
    /\ stdout_last.cpu_info = HostCpu

(***************************************************************************)
(* C17.  No emission step, failed or successful, changes a window: when an *)
(* emission fails the windows end with the tick's samples and keep them.   *)
(* The windows are the last min(n, 30) samples of all ticks, emitted or    *)
(* not, and after a tick whose snapshot was not written the next tick's    *)
(* verdicts are the rules' values on windows that end with its samples.    *)
(***************************************************************************)
C17_FailedEmissionKeepsSample ==
    /\ [][pc = "emit" => UNCHANGED <<cpu_history, memory_history>>]_vars
    /\ [][stderr_len' # stderr_len =>
              /\ cpu_history'[Len(cpu_history')] = sampled[Ticks].cpu
              /\ memory_history'[Len(memory_history')] = sampled[Ticks].mem]_vars
    /\ [](pc = "wait" =>
              /\ cpu_history = CpuOf(LastN(sampled, Min(Ticks, 30)))
              /\ memory_history = MemOf(LastN(sampled, Min(Ticks, 30))))
    /\ [][(pc = "wait" /\ Ticks > 0 /\ stdout_last.tick < Ticks) =>
              LET w == LastN(sampled, Min(Ticks, 30))
                  s == sampled'[Len(sampled')]
              IN  /\ w[Len(w)] = sampled[Ticks]
                  /\ metrics'.cpu_spike_detected
                         = detect_cpu_spike(CpuOf(w), s.cpu)
                  /\ metrics'.memory_leak_suspected
                         = detect_memory_leak(MemOf(w), s.mem)]_vars

C17_Witness ==
    /\ pc = "emit"
    /\ Ticks = 12
    /\ stderr_len = 1
    /\ stdout_last.tick = 10
    /\ sampled[11].cpu = F32FromInt(21)
    /\ sampled[12].cpu = F32FromInt(21)
    /\ detect_cpu_spike(CpuOf(SubSeq(sampled, 1, 10)), sampled[12].cpu)
    /\ ~metrics.cpu_spike_detected

(***************************************************************************)
(* C18.  The flags do not latch.  A sample equal to every element of its   *)
(* window is not flagged; so once 30 consecutive ticks have delivered the  *)
(* same CPU sample and the same memory sample, a further tick delivering   *)
(* them is flagged by neither rule, whatever was flagged before.           *)
(***************************************************************************)
C18_FlagsDoNotLatch ==
    pc = "emit" =>
        LET prior == PriorSamples
            cur == sampled[Ticks]
        IN  /\ (\A i \in DOMAIN prior : prior[i].cpu = cur.cpu)
                   => ~metrics.cpu_spike_detected
            /\ (\A i \in DOMAIN prior : prior[i].mem = cur.mem)
                   => ~metrics.memory_leak_suspected
            /\ (Ticks > 30 /\ \A i \in (Ticks - 30)..(Ticks - 1) :
                                  sampled[i] = cur)
                   => /\ ~metrics.cpu_spike_detected
                      /\ ~metrics.memory_leak_suspected

C18_Witness ==
    /\ pc = "emit"
    /\ Ticks = 61
    /\ sampled[30] # sampled[31]
    /\ \A i \in 31..60 : sampled[i] = sampled[61]
    /\ detect_cpu_spike(CpuOf(SubSeq(sampled, 1, 30)), sampled[31].cpu)
    /\ detect_memory_leak(MemOf(SubSeq(sampled, 1, 30)), sampled[31].mem)
    /\ ~metrics.cpu_spike_detected
    /\ ~metrics.memory_leak_suspected

====
